---- MODULE Spec2Model ----
(***************************************************************************)
(* inboxium: an SMTP inbox (aiosmtpd handler object) that turns each       *)
(* transaction into one InboxMessage and dispatches it through the ordered *)
(* list of registered handlers.                                            *)
(*                                                                         *)
(* Python values are modelled with their type, because the code relies on  *)
(* Python truthiness (any(...), `or`, `if h.block`) and on == between      *)
(* values of different types (a str constraint against a list).            *)
(***************************************************************************)
EXTENDS Naturals, Sequences, FiniteSets, TLC

VARIABLES
    handlers,   \* Inbox.handlers: the registry, a list of Handler
    envelope,   \* per transaction: the aiosmtpd Envelope (rcpt_tos, mail_from, content)
    pc,         \* per transaction: "rcpt" (before DATA), "await" (handle_DATA is
                \* suspended in `await h.func(msg)`), "done" (handle_DATA returned)
    msg,        \* per transaction: the InboxMessage built by handle_DATA
    idx,        \* per transaction: how many registry entries the for loop has taken
    status,     \* per transaction: the value handle_DATA returned
    given,      \* per transaction: the addresses passed to handle_RCPT, in call order
    calls,      \* per transaction: what happened to the handler callbacks, in order
    rcpt_status,\* per transaction: the value the last handle_RCPT returned
    reg0        \* per transaction: len(self.handlers) when handle_DATA was entered

vars == <<handlers, envelope, pc, msg, idx, status, given, calls, rcpt_status, reg0>>

(***************************************************************************)
(* Bounds of the model                                                     *)
(***************************************************************************)
\* longest registry explored
MaxHandlers == 2
\* most RCPT commands per transaction
MaxRcpt == 2

\* the transactions (connections) served at the same time
Txns == {"t1", "t2"}
OneTxn == {"t1"}

(***************************************************************************)
(* Python values                                                           *)
(***************************************************************************)
None == [t |-> "none"]
Str(s) == [t |-> "str", v |-> s]
Bool(b) == [t |-> "bool", v |-> b]
List(s) == [t |-> "list", v |-> s]

\* bool(x)
Truthy(x) ==
    CASE x.t = "none" -> FALSE
      [] x.t = "str"  -> x.v # ""
      [] x.t = "bool" -> x.v
      [] x.t = "list" -> x.v # <<>>

\* x == y : values of different types are never equal
PyEq(x, y) ==
    IF x.t # y.t THEN FALSE
    ELSE IF x.t = "none" THEN TRUE
    ELSE x.v = y.v

\* x or y
PyOr(x, y) == IF Truthy(x) THEN x ELSE y

(***************************************************************************)
(* Inputs                                                                  *)
(***************************************************************************)
\* addresses given to RCPT
Addrs == {"a@x", "b@x"}
OneAddr == {"a@x"}

\* envelope.mail_from
MailFroms == {None, Str("other@y")}
NoMailFrom == {None}

\* A parsed payload: the Subject header (None when absent), is_multipart(),
\* and the parts in walk() order (for a multipart message the container
\* itself comes first; a single-part message is its own only part).
Part(ctype, charset, payload) ==
    [ctype |-> ctype, charset |-> charset, payload |-> payload]

PlainHello ==
    [subject |-> Str("X"), multipart |-> FALSE,
     parts |-> <<Part("text/plain", "utf-8", "hello")>>]
PlainEmpty ==
    [subject |-> None, multipart |-> FALSE,
     parts |-> <<Part("text/plain", "utf-8", "")>>]
MultiPlainHtml ==
    [subject |-> Str("X"), multipart |-> TRUE,
     parts |-> <<Part("multipart/alternative", "utf-8", ""),
                 Part("text/plain", "utf-8", "hello"),
                 Part("text/html", "utf-8", "<b>hi</b>")>>]
MultiHtmlOnly ==
    [subject |-> Str("X"), multipart |-> TRUE,
     parts |-> <<Part("multipart/alternative", "utf-8", ""),
                 Part("text/html", "utf-8", "<b>hi</b>")>>]
MultiHtmlPlainPlain ==
    [subject |-> None, multipart |-> TRUE,
     parts |-> <<Part("multipart/mixed", "utf-8", ""),
                 Part("text/html", "utf-8", "<b>hi</b>"),
                 Part("text/plain", "utf-8", "hello"),
                 Part("text/plain", "utf-8", "second")>>]
BadCharset ==
    [subject |-> Str("X"), multipart |-> FALSE,
     parts |-> <<Part("text/plain", "x-unknown", "hello")>>]

Contents ==
    {PlainHello, PlainEmpty, MultiPlainHtml, MultiHtmlOnly, MultiHtmlPlainPlain,
     BadCharset}
FewContents == {PlainHello, PlainEmpty, BadCharset}

\* charsets bytes.decode() knows; any other raises LookupError
KnownCharsets == {"utf-8"}

\* session.host_name and session.peer of each connection
Session(t) ==
    IF t = "t1" THEN [host_name |-> "mx", peer |-> <<"10.0.0.1", "25">>]
    ELSE [host_name |-> "mx", peer |-> <<>>]

\* The arguments of Inbox.message a registration is drawn from:
\* by, sender, subject, text, block
Kinds ==
    { <<None, None, None, None, Bool(TRUE)>>,
      <<None, None, None, None, Bool(FALSE)>>,
      <<None, None, Str("X"), None, Bool(TRUE)>>,
      <<None, None, Str("X"), None, Bool(FALSE)>>,
      <<None, Str("nomatch@x"), Str("X"), None, Bool(FALSE)>>,
      <<None, Str("nomatch@x"), None, None, Bool(TRUE)>>,
      <<Str("a@x"), None, None, None, Bool(FALSE)>>,
      <<Str(""), None, None, None, Bool(FALSE)>>,
      <<None, None, Str(""), None, Bool(TRUE)>>,
      <<None, None, None, Str("hello"), None>> }

FewKinds ==
    { <<None, None, None, None, Bool(TRUE)>>,
      <<None, None, None, None, Bool(FALSE)>>,
      <<None, None, Str("X"), None, Bool(TRUE)>>,
      <<None, None, Str("X"), None, Bool(FALSE)>> }

(***************************************************************************)
(* types.py                                                                *)
(***************************************************************************)
Handler(func, by, sender, subject, text, block) ==
    [func |-> func, by |-> by, sender |-> sender, subject |-> subject,
     text |-> text, block |-> block]

InboxMessage(by, sender, subject, text, real_sender) ==
    [by |-> by, sender |-> sender, subject |-> subject, text |-> text,
     real_sender |-> real_sender]

\* result of a computation that may raise
Ok(v) == [ok |-> TRUE, v |-> v]
Raised == [ok |-> FALSE]

(***************************************************************************)
(* Message normalisation                                                   *)
(***************************************************************************)
\* payload.decode(charset, errors="replace")
Decode(part) ==
    IF part.charset \in KnownCharsets THEN Ok(Str(part.payload)) ELSE Raised

RECURSIVE LastPlain(_, _)
\* a variant that keeps the last text/plain part instead of returning at the
\* first
LastPlain(parts, i) ==
    IF i > Len(parts) THEN 0
    ELSE LET j == LastPlain(parts, i + 1) IN
         IF j # 0 THEN j
         ELSE IF parts[i].ctype = "text/plain" THEN i ELSE 0

RECURSIVE FirstPlain(_, _)
\* the for loop over msg.walk(): index of the first text/plain part, 0 if none
FirstPlain(parts, i) ==
    IF i > Len(parts) THEN 0
    ELSE IF parts[i].ctype = "text/plain" THEN i
    ELSE FirstPlain(parts, i + 1)

_get_body(content) ==
    IF content.multipart
    THEN LET i == FirstPlain(content.parts, 1) IN
         IF i = 0 THEN Ok(Str("")) ELSE Decode(content.parts[i])
    ELSE Decode(content.parts[1])

_get_real_sender(host_name, peer) ==
    IF peer # <<>>
    THEN Str(host_name \o " (http://" \o peer[1] \o ":" \o peer[2] \o ")")
    ELSE Str("")

\* msg.get("Subject", "") decoded
Subject(content) == IF content.subject = None THEN Str("") ELSE content.subject

_prepare_message(env, session) ==
    LET body == _get_body(env.content) IN
    IF ~body.ok THEN Raised
    ELSE Ok(InboxMessage(List(env.rcpt_tos),
                         PyOr(env.mail_from, Str("")),
                         Subject(env.content),
                         body.v,
                         _get_real_sender(session.host_name, session.peer)))

(***************************************************************************)
(* Dispatch                                                                *)
(***************************************************************************)
\* a variant that asks every declared constraint to match (AND, not OR)
FiresAll(h, m) ==
    LET cs == {f \in {"by", "sender", "subject", "text"} : Truthy(h[f])} IN
    \/ cs = {}
    \/ \A f \in cs : PyEq(h[f], m[f])

\* a variant without the catch-all clause
FiresNoCatchAll(h, m) ==
    \/ PyEq(h.by, m.by)
    \/ PyEq(h.sender, m.sender)
    \/ PyEq(h.subject, m.subject)
    \/ PyEq(h.text, m.text)

\* the condition of the if statement in the loop of handle_DATA
Fires(h, m) ==
    \/ ~(Truthy(h.by) \/ Truthy(h.sender) \/ Truthy(h.subject) \/ Truthy(h.text))
    \/ PyEq(h.by, m.by)
    \/ PyEq(h.sender, m.sender)
    \/ PyEq(h.subject, m.subject)
    \/ PyEq(h.text, m.text)

\* variants that ignore the block flag
BreaksNever(h) == FALSE
BreaksAlways(h) == TRUE

\* `if h.block: break`
Breaks(h) == Truthy(h.block)

RECURSIVE NextFiring(_, _, _)
\* the loop skipping registrations that do not fire: position of the first
\* registration after position i that fires, Len(hs) + 1 when the list ends
NextFiring(hs, m, i) ==
    IF i + 1 > Len(hs) THEN Len(hs) + 1
    ELSE IF Fires(hs[i + 1], m) THEN i + 1
    ELSE NextFiring(hs, m, i + 1)

\* the replies, as code and text of the returned line "<code> <text>"
Reply(code, text) == [code |-> code, text |-> text]
AcceptedResponse == Reply(250, "Message accepted for delivery")
FailureResponse == Reply(500, "Internal server error")
RcptResponse == Reply(250, "OK")
NoReply == Reply(0, "")
\* the returned string
ReplyLine(r) == ToString(r.code) \o " " \o r.text

Event(kind, h) == [kind |-> kind, func |-> h.func]

RECURSIVE AllFiring(_, _, _)
\* the events of calling every firing registration after position i at once
AllFiring(hs, m, i) ==
    IF i + 1 > Len(hs) THEN <<>>
    ELSE (IF Fires(hs[i + 1], m) THEN <<Event("call", hs[i + 1])>> ELSE <<>>)
         \o AllFiring(hs, m, i + 1)

\* a variant that starts the callback as a task and replies without awaiting it
LoopDetached(t, m, i, seen) ==
    LET j == NextFiring(handlers, m, i) IN
    IF j > Len(handlers)
    THEN /\ pc' = [pc EXCEPT ![t] = "done"]
         /\ idx' = [idx EXCEPT ![t] = Len(handlers)]
         /\ status' = [status EXCEPT ![t] = AcceptedResponse]
         /\ calls' = [calls EXCEPT ![t] = @ \o seen]
    ELSE /\ pc' = [pc EXCEPT ![t] = "await"]
         /\ idx' = [idx EXCEPT ![t] = j]
         /\ status' = [status EXCEPT ![t] = AcceptedResponse]
         /\ calls' = [calls EXCEPT ![t] = @ \o seen \o <<Event("call", handlers[j])>>]

\* a variant that starts all firing callbacks together (gather) and awaits
\* them one by one
LoopGather(t, m, i, seen) ==
    LET j == NextFiring(handlers, m, i) IN
    IF j > Len(handlers)
    THEN /\ pc' = [pc EXCEPT ![t] = "done"]
         /\ idx' = [idx EXCEPT ![t] = Len(handlers)]
         /\ status' = [status EXCEPT ![t] = AcceptedResponse]
         /\ calls' = [calls EXCEPT ![t] = @ \o seen]
    ELSE /\ pc' = [pc EXCEPT ![t] = "await"]
         /\ idx' = [idx EXCEPT ![t] = j]
         /\ status' = status
         /\ calls' = [calls EXCEPT ![t] =
                         @ \o seen \o (IF i = 0 THEN AllFiring(handlers, m, 0) ELSE <<>>)]

\* a variant that iterates a copy of the registry taken on entry
\* (for h in list(self.handlers))
LoopSnapshot(t, m, i, seen) ==
    LET hs == SubSeq(handlers, 1, IF i = 0 THEN Len(handlers) ELSE reg0[t])
        j == NextFiring(hs, m, i) IN
    IF j > Len(hs)
    THEN /\ pc' = [pc EXCEPT ![t] = "done"]
         /\ idx' = [idx EXCEPT ![t] = Len(hs)]
         /\ status' = [status EXCEPT ![t] = AcceptedResponse]
         /\ calls' = [calls EXCEPT ![t] = @ \o seen]
    ELSE /\ pc' = [pc EXCEPT ![t] = "await"]
         /\ idx' = [idx EXCEPT ![t] = j]
         /\ status' = status
         /\ calls' = [calls EXCEPT ![t] = @ \o seen \o <<Event("call", hs[j])>>]

\* a variant that refuses a message no callback was called for
LoopNoMatchFails(t, m, i, seen) ==
    LET j == NextFiring(handlers, m, i) IN
    IF j > Len(handlers)
    THEN /\ pc' = [pc EXCEPT ![t] = "done"]
         /\ idx' = [idx EXCEPT ![t] = Len(handlers)]
         /\ status' = [status EXCEPT ![t] =
                          IF calls[t] \o seen = <<>> THEN FailureResponse
                          ELSE AcceptedResponse]
         /\ calls' = [calls EXCEPT ![t] = @ \o seen]
    ELSE /\ pc' = [pc EXCEPT ![t] = "await"]
         /\ idx' = [idx EXCEPT ![t] = j]
         /\ status' = status
         /\ calls' = [calls EXCEPT ![t] = @ \o seen \o <<Event("call", handlers[j])>>]

\* The for loop of handle_DATA (re)entered after position i of the live list
\* with message m, having just seen the events `seen`: it runs to the next
\* await, or to the end of the list and the return.
Loop(t, m, i, seen) ==
    LET j == NextFiring(handlers, m, i) IN
    IF j > Len(handlers)
    THEN /\ pc' = [pc EXCEPT ![t] = "done"]
         /\ idx' = [idx EXCEPT ![t] = Len(handlers)]
         /\ status' = [status EXCEPT ![t] = AcceptedResponse]
         /\ calls' = [calls EXCEPT ![t] = @ \o seen]
    ELSE /\ pc' = [pc EXCEPT ![t] = "await"]
         /\ idx' = [idx EXCEPT ![t] = j]
         /\ status' = status
         /\ calls' = [calls EXCEPT ![t] = @ \o seen \o <<Event("call", handlers[j])>>]

(***************************************************************************)
(* State                                                                   *)
(***************************************************************************)
NoMsg == [t |-> "none"]

Init ==
    /\ handlers = <<>>
    /\ envelope = [t \in Txns |-> [rcpt_tos |-> <<>>, mail_from |-> None,
                                   content |-> None]]
    /\ pc = [t \in Txns |-> "rcpt"]
    /\ msg = [t \in Txns |-> NoMsg]
    /\ idx = [t \in Txns |-> 0]
    /\ status = [t \in Txns |-> NoReply]
    /\ given = [t \in Txns |-> <<>>]
    /\ calls = [t \in Txns |-> <<>>]
    /\ rcpt_status = [t \in Txns |-> NoReply]
    /\ reg0 = [t \in Txns |-> 0]

(***************************************************************************)
(* Operations                                                              *)
(***************************************************************************)
\* a variant that puts the new registration first (insert(0, ...))
message_Prepend(by, sender, subject, text, block) ==
    /\ Len(handlers) < MaxHandlers
    /\ handlers' = <<Handler(Len(handlers) + 1, by, sender, subject, text, block)>>
                    \o handlers
    /\ UNCHANGED <<envelope, pc, msg, idx, status, given, calls, rcpt_status, reg0>>

\* Inbox.message(by, sender, subject, text, block)(func)
message(by, sender, subject, text, block) ==
    /\ Len(handlers) < MaxHandlers
    /\ handlers' = Append(handlers,
                          Handler(Len(handlers) + 1, by, sender, subject, text, block))
    /\ UNCHANGED <<envelope, pc, msg, idx, status, given, calls, rcpt_status, reg0>>

\* a variant that drops an address the envelope already holds
handle_RCPT_Dedup(t, address) ==
    /\ pc[t] = "rcpt"
    /\ Len(given[t]) < MaxRcpt
    /\ given' = [given EXCEPT ![t] = Append(@, address)]
    /\ envelope' = [envelope EXCEPT ![t].rcpt_tos =
                       IF \E k \in DOMAIN @ : @[k] = address THEN @
                       ELSE Append(@, address)]
    /\ rcpt_status' = [rcpt_status EXCEPT ![t] = RcptResponse]
    /\ UNCHANGED <<handlers, pc, msg, idx, status, calls, reg0>>

\* a variant that refuses an address the envelope already holds
handle_RCPT_Reject(t, address) ==
    /\ pc[t] = "rcpt"
    /\ Len(given[t]) < MaxRcpt
    /\ given' = [given EXCEPT ![t] = Append(@, address)]
    /\ IF \E k \in DOMAIN envelope[t].rcpt_tos : envelope[t].rcpt_tos[k] = address
       THEN /\ envelope' = envelope
            /\ rcpt_status' = [rcpt_status EXCEPT ![t] = Reply(550, "Duplicate")]
       ELSE /\ envelope' = [envelope EXCEPT ![t].rcpt_tos = Append(@, address)]
            /\ rcpt_status' = [rcpt_status EXCEPT ![t] = RcptResponse]
    /\ UNCHANGED <<handlers, pc, msg, idx, status, calls, reg0>>

\* Inbox.handle_RCPT
handle_RCPT(t, address) ==
    /\ pc[t] = "rcpt"
    /\ Len(given[t]) < MaxRcpt
    /\ given' = [given EXCEPT ![t] = Append(@, address)]
    /\ envelope' = [envelope EXCEPT ![t].rcpt_tos = Append(@, address)]
    /\ rcpt_status' = [rcpt_status EXCEPT ![t] = RcptResponse]
    /\ UNCHANGED <<handlers, pc, msg, idx, status, calls, reg0>>

\* a variant whose try block starts after _prepare_message: the exception
\* leaves handle_DATA and no reply is returned
handle_DATA_Uncaught(t, mail_from, content) ==
    /\ pc[t] = "rcpt"
    /\ envelope[t].rcpt_tos # <<>>
    /\ envelope' = [envelope EXCEPT ![t].mail_from = mail_from,
                                    ![t].content = content]
    /\ LET m == _prepare_message(envelope'[t], Session(t)) IN
       IF ~m.ok
       THEN /\ pc' = [pc EXCEPT ![t] = "crashed"]
            /\ UNCHANGED <<msg, idx, calls, status>>
       ELSE /\ msg' = [msg EXCEPT ![t] = m.v]
            /\ Loop(t, m.v, 0, <<>>)
    /\ reg0' = [reg0 EXCEPT ![t] = Len(handlers)]
    /\ UNCHANGED <<handlers, given, rcpt_status>>

\* Inbox.handle_DATA from its entry to its first await (or to its return).
\* The SMTP layer has put the sender and the payload into the envelope, and
\* it answers DATA itself (503) while the envelope has no recipient.
handle_DATA(t, mail_from, content) ==
    /\ pc[t] = "rcpt"
    /\ envelope[t].rcpt_tos # <<>>
    /\ envelope' = [envelope EXCEPT ![t].mail_from = mail_from,
                                    ![t].content = content]
    /\ LET m == _prepare_message(envelope'[t], Session(t)) IN
       IF ~m.ok
       THEN /\ pc' = [pc EXCEPT ![t] = "done"]
            /\ status' = [status EXCEPT ![t] = FailureResponse]
            /\ UNCHANGED <<msg, idx, calls>>
       ELSE /\ msg' = [msg EXCEPT ![t] = m.v]
            /\ Loop(t, m.v, 0, <<>>)
    /\ reg0' = [reg0 EXCEPT ![t] = Len(handlers)]
    /\ UNCHANGED <<handlers, given, rcpt_status>>

\* `await h.func(msg)` completes: the rest of the loop body, then the loop up
\* to the next await or the return
HandlerReturns(t) ==
    /\ pc[t] = "await"
    /\ LET h == handlers[idx[t]] IN
       IF Breaks(h)
       THEN /\ pc' = [pc EXCEPT ![t] = "done"]
            /\ status' = [status EXCEPT ![t] = AcceptedResponse]
            /\ calls' = [calls EXCEPT ![t] = Append(@, Event("return", h))]
            /\ idx' = idx
       ELSE Loop(t, msg[t], idx[t], <<Event("return", h)>>)
    /\ UNCHANGED <<handlers, envelope, msg, given, rcpt_status, reg0>>

\* a variant with the try inside the loop: the exception is logged and the
\* loop goes on
HandlerRaisesContinue(t) ==
    /\ pc[t] = "await"
    /\ Loop(t, msg[t], idx[t], <<Event("raise", handlers[idx[t]])>>)
    /\ UNCHANGED <<handlers, envelope, msg, given, rcpt_status, reg0>>

\* a variant where the failure is kept in a flag shared by all dispatches:
\* every suspended handle_DATA gives up
HandlerRaisesShared(t) ==
    /\ pc[t] = "await"
    /\ pc' = [u \in Txns |-> IF pc[u] = "await" THEN "done" ELSE pc[u]]
    /\ status' = [u \in Txns |-> IF pc[u] = "await" THEN FailureResponse
                                  ELSE status[u]]
    /\ calls' = [calls EXCEPT ![t] = Append(@, Event("raise", handlers[idx[t]]))]
    /\ UNCHANGED <<handlers, envelope, msg, idx, given, rcpt_status, reg0>>

\* a variant that puts the exception into the reply (f"500 {e}")
HandlerRaisesLeaks(t) ==
    /\ pc[t] = "await"
    /\ pc' = [pc EXCEPT ![t] = "done"]
    /\ status' = [status EXCEPT ![t] =
                     Reply(500, "handler " \o ToString(idx[t]) \o " failed")]
    /\ calls' = [calls EXCEPT ![t] = Append(@, Event("raise", handlers[idx[t]]))]
    /\ UNCHANGED <<handlers, envelope, msg, idx, given, rcpt_status, reg0>>

\* `await h.func(msg)` raises: the except clause
HandlerRaises(t) ==
    /\ pc[t] = "await"
    /\ pc' = [pc EXCEPT ![t] = "done"]
    /\ status' = [status EXCEPT ![t] = FailureResponse]
    /\ calls' = [calls EXCEPT ![t] = Append(@, Event("raise", handlers[idx[t]]))]
    /\ UNCHANGED <<handlers, envelope, msg, idx, given, rcpt_status, reg0>>

\* the program, with the transactions T and the inputs it is given
NextOver(T, Ks, As, Fs, Cs) ==
    \/ \E k \in Ks : message(k[1], k[2], k[3], k[4], k[5])
    \/ \E t \in T, a \in As : handle_RCPT(t, a)
    \/ \E t \in T, f \in Fs, c \in Cs : handle_DATA(t, f, c)
    \/ \E t \in T : HandlerReturns(t)
    \/ \E t \in T : HandlerRaises(t)

\* two transactions served concurrently
Next == NextOver(Txns, FewKinds, OneAddr, NoMailFrom, FewContents)
Spec == Init /\ [][Next]_vars

\* one transaction, every kind of registration and message
NextMatch == NextOver(OneTxn, Kinds, Addrs, MailFroms, Contents)
SpecMatch == Init /\ [][NextMatch]_vars

(***************************************************************************)
(* Properties                                                              *)
(***************************************************************************)
Fields == {"by", "sender", "subject", "text"}

\* the callback of registration i was called for the message of t
Invoked(t, i) == \E k \in DOMAIN calls[t] : calls[t][k] = [kind |-> "call", func |-> i]

\* the registrations the dispatch of t has evaluated so far
Evaluated(t) == IF msg[t] = NoMsg THEN {} ELSE 1..idx[t]

HasRaise(t) == \E k \in DOMAIN calls[t] : calls[t][k].kind = "raise"

\* C1: once a handler that fires has block = true, no later registration is
\* evaluated or invoked for that message.
C1_BlockingStops ==
    \A t \in Txns : \A k \in DOMAIN calls[t] :
        (calls[t][k].kind = "call" /\ handlers[calls[t][k].func].block = Bool(TRUE))
        => /\ \A k2 \in DOMAIN calls[t] : k2 > k => calls[t][k2].kind # "call"
           /\ idx[t] = calls[t][k].func

\* registry [H1(block=true, fires), H2(fires)]: the dispatch ended after H1
C1_Witness ==
    \E t \in Txns :
        /\ Len(handlers) = 2 /\ pc[t] = "done" /\ msg[t] # NoMsg
        /\ calls[t] = <<[kind |-> "call", func |-> 1], [kind |-> "return", func |-> 1]>>
        /\ handlers[1].block = Bool(TRUE)
        /\ Fires(handlers[1], msg[t]) /\ Fires(handlers[2], msg[t])
        /\ ~Invoked(t, 2)

\* every call but the first directly follows the return of an earlier registration
CallsInOrder ==
    \A t \in Txns : \A k \in DOMAIN calls[t] :
        calls[t][k].kind = "call" =>
            \/ k = 1
            \/ /\ calls[t][k - 1].kind = "return"
               /\ calls[t][k - 1].func < calls[t][k].func

\* C2: firing handlers are invoked in registration order, one after the other,
\* and when a firing handler with block = false returns, the next registration
\* that fires is invoked (or, if there is none, the message is accepted).
C2_NonBlockingContinues ==
    [][ /\ CallsInOrder'
        /\ \A t \in Txns :
            ( /\ pc[t] = "await"
              /\ handlers[idx[t]].block = Bool(FALSE)
              /\ Len(calls'[t]) > Len(calls[t])
              /\ calls'[t][Len(calls[t]) + 1].kind = "return" )
            => LET later == {j \in (idx[t] + 1)..Len(handlers) :
                                Fires(handlers[j], msg[t])} IN
               IF later = {}
               THEN pc'[t] = "done" /\ status'[t] = AcceptedResponse
               ELSE LET j == CHOOSE x \in later : \A y \in later : x <= y IN
                    /\ pc'[t] = "await"
                    /\ calls'[t] = calls[t] \o <<[kind |-> "return", func |-> idx[t]],
                                                 [kind |-> "call", func |-> j]>>
      ]_vars

\* registry [H1(block=false, fires), H2(fires)]: H1 ran, then H2 ran
C2_Witness ==
    \E t \in Txns :
        /\ Len(handlers) = 2
        /\ handlers[1].block = Bool(FALSE)
        /\ calls[t] = <<[kind |-> "call", func |-> 1], [kind |-> "return", func |-> 1],
                        [kind |-> "call", func |-> 2], [kind |-> "return", func |-> 2]>>

\* C3: an evaluated handler with at least one present constraint equal to the
\* corresponding message field is invoked, whatever its other constraints.
C3_AnyConstraintFires ==
    \A t \in Txns : \A i \in Evaluated(t) :
        (\E f \in Fields : handlers[i][f] # None /\ PyEq(handlers[i][f], msg[t][f]))
        => Invoked(t, i)

\* {sender: "nomatch@x", subject: "X"} was invoked for subject "X" from "other@y"
C3_Witness ==
    \E t \in Txns : \E i \in Evaluated(t) :
        /\ handlers[i].sender = Str("nomatch@x") /\ handlers[i].subject = Str("X")
        /\ msg[t].subject = Str("X") /\ msg[t].sender = Str("other@y")
        /\ Invoked(t, i)

\* C4: an evaluated handler with no constraint at all is invoked, whatever the
\* message.
C4_CatchAllFires ==
    \A t \in Txns : \A i \in Evaluated(t) :
        (\A f \in Fields : handlers[i][f] = None) => Invoked(t, i)

\* a catch-all registered second was invoked for a message with recipients,
\* sender, subject and body
C4_Witness ==
    \E t \in Txns :
        /\ 2 \in Evaluated(t) /\ \A f \in Fields : handlers[2][f] = None
        /\ Invoked(t, 2)
        /\ msg[t].by = List(<<"a@x", "b@x">>) /\ msg[t].sender = Str("other@y")
        /\ msg[t].subject = Str("X") /\ msg[t].text = Str("hello")

\* C5: when a handler callback raises, handle_DATA returns the failure
\* response and nothing after the failing registration is evaluated or invoked.
C5_RaiseAborts ==
    \A t \in Txns : \A k \in DOMAIN calls[t] :
        calls[t][k].kind = "raise"
        => /\ k = Len(calls[t])
           /\ pc[t] = "done"
           /\ status[t] = FailureResponse
           /\ idx[t] = calls[t][k].func

\* H1 raised while a later registration H2 would have fired
C5_Witness ==
    \E t \in Txns :
        /\ Len(handlers) = 2
        /\ calls[t] = <<[kind |-> "call", func |-> 1], [kind |-> "raise", func |-> 1]>>
        /\ Fires(handlers[2], msg[t])
        /\ status[t] = FailureResponse

RECURSIVE ExpectedCalls(_, _, _)
\* what a dispatch of m over hs from position i does when no callback fails
ExpectedCalls(hs, m, i) ==
    IF i > Len(hs) THEN <<>>
    ELSE IF ~Fires(hs[i], m) THEN ExpectedCalls(hs, m, i + 1)
    ELSE <<[kind |-> "call", func |-> hs[i].func],
           [kind |-> "return", func |-> hs[i].func]>>
         \o (IF Truthy(hs[i].block) THEN <<>> ELSE ExpectedCalls(hs, m, i + 1))

\* a finished transaction whose normalisation and handlers did not fail was
\* accepted after exactly the calls its own dispatch selects
OwnDispatchOnly ==
    \A t \in Txns :
        (pc[t] = "done" /\ msg[t] # NoMsg /\ ~HasRaise(t))
        => /\ status[t] = AcceptedResponse
           /\ calls[t] = ExpectedCalls(SubSeq(handlers, 1, idx[t]), msg[t], 1)

\* C6: the step in which one transaction fails changes nothing of another
\* transaction, and a transaction whose handlers do not fail invokes exactly
\* the handlers its own dispatch selects, in order, and is accepted.
C6_FailureIsolated ==
    [][ /\ \A t \in Txns, u \in Txns :
            (t # u /\ status[u] # FailureResponse /\ status'[u] = FailureResponse)
            => /\ pc'[t] = pc[t] /\ status'[t] = status[t]
               /\ calls'[t] = calls[t] /\ idx'[t] = idx[t] /\ msg'[t] = msg[t]
        /\ OwnDispatchOnly'
      ]_vars

\* t2 failed in its first handler; t1 ran two handlers and was accepted
C6_Witness ==
    /\ status["t2"] = FailureResponse /\ HasRaise("t2")
    /\ status["t1"] = AcceptedResponse /\ Len(calls["t1"]) = 4
    /\ calls["t1"][1].func = calls["t2"][1].func

\* C7: the recipients of the normalized message are the addresses passed to
\* handle_RCPT, in call order, duplicates kept.
C7_RecipientsKept ==
    \A t \in Txns : msg[t] # NoMsg => msg[t].by = List(given[t])

\* the same address was accepted twice and appears twice
C7_Witness ==
    \E t \in Txns : msg[t] # NoMsg /\ given[t] = <<"a@x", "a@x">>
                    /\ msg[t].by.v = <<"a@x", "a@x">>

\* the transaction failed: in normalisation or in a handler
Failed(t) == pc[t] = "done" /\ (msg[t] = NoMsg \/ HasRaise(t))

\* C8: when normalisation or a handler fails, the reply of handle_DATA is a
\* transient-failure (4yz) reply.
C8_TransientFailure ==
    \A t \in Txns : Failed(t) => status[t].code \div 100 = 4

\* C9: a handler whose only constraint is by = r fires exactly when r equals
\* the message's whole recipients value.
C9_ByExactEquality ==
    \A t \in Txns : \A i \in Evaluated(t) :
        ( /\ handlers[i].by # None
          /\ handlers[i].sender = None /\ handlers[i].subject = None
          /\ handlers[i].text = None )
        => (Invoked(t, i) <=> PyEq(handlers[i].by, msg[t].by))

\* C10: if normalisation of the payload fails, handle_DATA returns the
\* failure response, invokes no handler and leaves the registry unchanged.
C10_NormalizationFailure ==
    [][ \A t \in Txns :
          ( /\ pc[t] = "rcpt" /\ pc'[t] # "rcpt"
            /\ ~_prepare_message(envelope'[t], Session(t)).ok )
          => /\ pc'[t] = "done"
             /\ status'[t] = FailureResponse
             /\ calls'[t] = <<>>
             /\ handlers' = handlers
      ]_vars

\* a payload with an unknown charset was refused although a catch-all is
\* registered
C10_Witness ==
    \E t \in Txns :
        /\ pc[t] = "done" /\ envelope[t].content = BadCharset
        /\ status[t] = FailureResponse /\ calls[t] = <<>>
        /\ Len(handlers) > 0 /\ \A f \in Fields : handlers[1][f] = None

\* the callbacks of t that were called and have neither returned nor raised
InProgress(t) ==
    {k \in DOMAIN calls[t] :
        /\ calls[t][k].kind = "call"
        /\ \A k2 \in DOMAIN calls[t] :
              k2 > k => calls[t][k2].func # calls[t][k].func}

\* C11: normalize, then dispatch, then respond: no callback is called before
\* the message is built, and handle_DATA has returned no status while a
\* callback it called has neither finished nor failed, so a callback that
\* never completes leaves the transaction without a response.
C11_RespondsAfterHandlers ==
    \A t \in Txns :
        /\ calls[t] # <<>> => msg[t] # NoMsg
        /\ status[t] # NoReply => (pc[t] = "done" /\ InProgress(t) = {})
        /\ InProgress(t) # {} => (pc[t] = "await" /\ status[t] = NoReply)

\* the second callback of a message is suspended: no status yet
C11_Witness ==
    \E t \in Txns :
        /\ Len(calls[t]) = 3 /\ calls[t][3].kind = "call"
        /\ pc[t] = "await" /\ status[t] = NoReply

\* C12: for one message at most one callback is in progress at any moment,
\* also while callbacks of another transaction are in progress.
C12_OneHandlerAtATime ==
    \A t \in Txns : Cardinality(InProgress(t)) <= 1

\* both transactions are suspended in a callback, t1 in its second one
C12_Witness ==
    /\ pc["t1"] = "await" /\ pc["t2"] = "await"
    /\ Len(calls["t1"]) = 3
    /\ Cardinality(InProgress("t1")) = 1 /\ Cardinality(InProgress("t2")) = 1

\* C13: handle_RCPT appends exactly the given address to the end of the
\* envelope's recipient list and returns "250 OK", whatever the address and
\* the state; it calls no callback and leaves the registry unchanged.
C13_RcptAlwaysAccepted ==
    [][ \A t \in Txns :
          given'[t] # given[t]
          => LET a == given'[t][Len(given'[t])] IN
             /\ envelope'[t].rcpt_tos = Append(envelope[t].rcpt_tos, a)
             /\ ReplyLine(rcpt_status'[t]) = "250 OK"
             /\ calls' = calls
             /\ handlers' = handlers
      ]_vars

\* an address already in the envelope was accepted again
C13_Witness ==
    \E t \in Txns :
        /\ given[t] = <<"b@x", "b@x">> /\ envelope[t].rcpt_tos = <<"b@x", "b@x">>
        /\ ReplyLine(rcpt_status[t]) = "250 OK"
        /\ handlers # <<>> /\ pc[t] = "rcpt"

\* C14: the body of a multipart message is the content of its first
\* text/plain part in walk order, and the empty string when it has none;
\* normalisation succeeds in both cases.
C14_FirstPlainPart ==
    \A t \in Txns :
        (pc[t] # "rcpt" /\ envelope[t].content.multipart)
        => LET parts == envelope[t].content.parts
               plain == {i \in DOMAIN parts : parts[i].ctype = "text/plain"}
           IN IF plain = {}
              THEN msg[t] # NoMsg /\ msg[t].text = Str("")
              ELSE LET i == CHOOSE x \in plain : \A y \in plain : x <= y IN
                   parts[i].charset \in KnownCharsets
                   => (msg[t] # NoMsg /\ msg[t].text = Str(parts[i].payload))

\* text/html, then two text/plain parts: the body is the first text/plain
C14_Witness ==
    \E t \in Txns :
        /\ pc[t] # "rcpt" /\ envelope[t].content = MultiHtmlPlainPlain
        /\ msg[t] # NoMsg /\ msg[t].text = Str("hello")

\* the message field a constraint is compared with is not empty
NonEmpty(v) == IF v.t = "list" THEN v.v # <<>> ELSE v.v # ""

\* C15: a handler whose present constraints are empty strings is not a
\* catch-all: it is not invoked for a message whose corresponding fields are
\* non-empty.
C15_EmptyStringIsAConstraint ==
    \A t \in Txns : \A i \in Evaluated(t) :
        ( /\ \E f \in Fields : handlers[i][f] = Str("")
          /\ \A f \in Fields : handlers[i][f] \in {None, Str("")}
          /\ \A f \in Fields : handlers[i][f] = Str("") => NonEmpty(msg[t][f]) )
        => ~Invoked(t, i)

\* C16: a handler with at least one constraint, none of whose present
\* constraints equals the corresponding message field, is not invoked (so
\* its block flag cannot stop the dispatch): no event of it is in the calls.
C16_NoMatchNoCall ==
    \A t \in Txns : \A i \in Evaluated(t) :
        ( /\ \E f \in Fields : handlers[i][f] # None
          /\ \A f \in Fields :
                handlers[i][f] # None => ~PyEq(handlers[i][f], msg[t][f]) )
        => ~\E k \in DOMAIN calls[t] : calls[t][k].func = i

\* every registration the loop of t has passed was called once if it fires
\* for the message and not at all otherwise
NoSkipNoRepeat ==
    \A t \in Txns : \A i \in Evaluated(t) :
        Cardinality({k \in DOMAIN calls[t] : calls[t][k] = [kind |-> "call", func |-> i]})
            = IF Fires(handlers[i], msg[t]) THEN 1 ELSE 0

\* C17 as stated: a dispatch works on the registry as it was when the
\* dispatch started: it neither evaluates nor invokes a registration appended
\* later, and skips or repeats no registration.
C17_Snapshot ==
    /\ NoSkipNoRepeat
    /\ \A t \in Txns : \A i \in 1..Len(handlers) : Invoked(t, i) => i <= reg0[t]

\* C17 amended: a dispatch iterates the live registry: when its loop ends
\* without a break or a failure it has passed every registration present at
\* that moment, those appended after it started included, and it has skipped
\* or repeated none.
C17_LiveIteration ==
    [][ /\ NoSkipNoRepeat'
        /\ \A t \in Txns :
              ( /\ pc[t] = "await" /\ pc'[t] = "done"
                /\ status'[t] = AcceptedResponse
                /\ ~Truthy(handlers[idx[t]].block) )
              => idx'[t] = Len(handlers)
      ]_vars

\* the second registration was appended after handle_DATA was entered and
\* was invoked by that dispatch
C17_Witness ==
    \E t \in Txns :
        /\ reg0[t] = 1 /\ Len(handlers) = 2
        /\ calls[t] = <<[kind |-> "call", func |-> 1], [kind |-> "return", func |-> 1],
                        [kind |-> "call", func |-> 2], [kind |-> "return", func |-> 2]>>

\* C18: the registry is append-only: a registration adds exactly one entry at
\* the end and keeps the existing entries in place, and no step of
\* handle_RCPT or handle_DATA (successful or failed) changes the registry.
C18_AppendOnly ==
    [][ /\ handlers' # handlers
           => /\ Len(handlers') = Len(handlers) + 1
              /\ SubSeq(handlers', 1, Len(handlers)) = handlers
              /\ UNCHANGED <<envelope, pc, msg, idx, status, given, calls>>
        /\ (given' # given \/ pc' # pc \/ status' # status \/ calls' # calls)
           => handlers' = handlers
      ]_vars

\* two different registrations are in place after one transaction was
\* accepted and the other failed
C18_Witness ==
    /\ Len(handlers) = 2
    /\ handlers[1].subject = Str("X") /\ handlers[2].subject = None
    /\ status["t1"] = AcceptedResponse /\ status["t2"] = FailureResponse
    /\ given["t1"] # <<>>

\* C19: the failure response of handle_DATA is one fixed string: two
\* transactions that fail, whatever the step, the callback or the message,
\* return the same line.
C19_GenericFailure ==
    \A t \in Txns, u \in Txns :
        (Failed(t) /\ Failed(u)) => ReplyLine(status[t]) = ReplyLine(status[u])

\* one transaction failed in normalisation, the other in its second callback,
\* with different messages
C19_Witness ==
    /\ Failed("t1") /\ msg["t1"] = NoMsg
    /\ Failed("t2") /\ HasRaise("t2") /\ Len(calls["t2"]) = 4
    /\ ReplyLine(status["t1"]) = ReplyLine(status["t2"])

\* the events of t stay what they were: the log only grows
CallsKept(t) ==
    /\ Len(calls'[t]) >= Len(calls[t])
    /\ SubSeq(calls'[t], 1, Len(calls[t])) = calls[t]

\* C20: handle_DATA returns "250 Message accepted for delivery" exactly when
\* normalisation succeeded and no invoked callback raised (also when no
\* callback was invoked at all), and what callbacks did before a failure
\* stays done.
C20_AcceptedIffNoFailure ==
    [][ \A t \in Txns :
          /\ CallsKept(t)
          /\ pc'[t] = "done"
             => ( ReplyLine(status'[t]) = "250 Message accepted for delivery"
                  <=> (msg'[t] # NoMsg /\ ~HasRaise(t)') )
          /\ pc'[t] # "done" => status'[t] = NoReply
      ]_vars

\* no registration fired for the message of t1 and it was accepted; t2 failed
\* in its second callback after the first had returned
C20_Witness ==
    /\ handlers # <<>>
    /\ pc["t1"] = "done" /\ msg["t1"] # NoMsg /\ calls["t1"] = <<>>
    /\ ReplyLine(status["t1"]) = "250 Message accepted for delivery"
    /\ calls["t2"] = <<[kind |-> "call", func |-> 1], [kind |-> "return", func |-> 1],
                       [kind |-> "call", func |-> 2], [kind |-> "raise", func |-> 2]>>
    /\ status["t2"] = FailureResponse

====
